---- MODULE Spec2Model ----
(***************************************************************************)
(* Model of libPShowdown/generate_tries.py: the trie builder               *)
(* (Node.add_entry), the node compiler (Node.compile / compile_part) and   *)
(* the linker (compile_trie).                                              *)
(*                                                                         *)
(* Python values are modelled as tagged records so that isinstance() is a  *)
(* test of the tag.  Characters are their codes (ord).  A Node object is   *)
(* named by the path of characters that leads to it from the root; the     *)
(* root is <<>>.  List indices of the source are 0-based, the sequences    *)
(* of the model are 1-based: list[i] is seq[i + 1].                        *)
(***************************************************************************)
EXTENDS Integers, Sequences, FiniteSets, TLC

VARIABLES
    name,         \* compile_trie's argument `name'
    source,       \* compile_trie's argument `source', a list of (key, value)
    limit,        \* the word limit of compile_part's guard
    pc,           \* where the run is: start, build, compile, emit, done,
                  \*   raised (an exception left compile_trie), direct and
                  \*   fault (a direct call of add_entry / compile returned / raised)
    idx,          \* the position of the `for k, v in source' loop that builds
    nodes,        \* the Node objects, by path
    compilation,  \* the list `compilation'
    stack,        \* the list `stack'
    error,        \* the exception raised, or NoError
    output,       \* the string compile_trie returned, "" before it returns
    pushed,       \* history: the nodes appended to `stack', in order
    compiled,     \* history: the nodes whose compile ran past its guard
    direct        \* history: the pair of a direct add_entry call, if any

vars == <<name, source, limit, pc, idx, nodes, compilation, stack, error,
          output, pushed, compiled, direct>>

(* ---------------------------- bounds ----------------------------------- *)
\* the size of a source: its keys' characters plus one per key, which
\* bounds the edges of its tree
MaxSize == 7
\* the largest word limit of the runs whose limit is a parameter
MaxLimit == 15

(* ------------------------- Python values ------------------------------- *)
PyInt(n) == [type |-> "int", int |-> n, str |-> ""]
PyStr(s) == [type |-> "str", int |-> 0, str |-> s]
PyFloat(n) == [type |-> "float", int |-> n, str |-> ""]
PyNone == [type |-> "NoneType", int |-> 0, str |-> ""]

\* str(x)
Str(x) ==
    IF x.type = "int" THEN ToString(x.int)
    ELSE IF x.type = "str" THEN x.str
    ELSE IF x.type = "float" THEN ToString(x.int) \o ".5"
    ELSE "None"

NoError == [type |-> "", msg |-> "", key |-> <<>>]
Exception(t, m, k) == [type |-> t, msg |-> m, key |-> k]

\* 0xFFFF - 4
WordLimit == 65535 - 4

(* ----------------------------- inputs ---------------------------------- *)
\* the characters of the keys, 'a' and 'b', and a character of no key, 'c'
Chars == {97, 98}
OtherChar == 99
ValidValues == {PyInt(1), PyStr("NVStatus::BURN")}
Values == ValidValues \cup {PyFloat(1)}

\* the pairs whose key has len characters
Pairs(len, vals) == [1..len -> Chars] \X vals

\* the lists of (key, value) by size, in every order, repeated keys
\* included: element k + 1 of the result holds the lists of size k, for k
\* in 0..n; bySize holds the sizes already built
RECURSIVE SourcesBySize(_, _, _)
SourcesBySize(bySize, n, vals) ==
    IF Len(bySize) > n THEN bySize
    ELSE LET size == Len(bySize)
             next == UNION {{<<pair>> \o rest : pair \in Pairs(len, vals),
                                                rest \in bySize[size - len]}
                            : len \in 0..(size - 1)}
         IN SourcesBySize(Append(bySize, next), n, vals)

\* the lists that can follow two pairs
Tails == SourcesBySize(<< {<<>>} >>, MaxSize - 2, Values)
LimitTails == SourcesBySize(<< {<<>>} >>, MaxSize - 2, {PyInt(1)})

\* src is any list of (key, value) of size at most MaxSize: the empty list,
\* a list of one pair, or two pairs and a tail
IsSource(src, vals, tails) ==
    \/ src = <<>>
    \/ \E len \in 0..(MaxSize - 1) : \E pair \in Pairs(len, vals) : src = <<pair>>
    \/ \E len1 \in 0..(MaxSize - 2) : \E len2 \in 0..(MaxSize - 2 - len1) :
       \E rest \in 0..(MaxSize - 2 - len1 - len2) :
       \E pair1 \in Pairs(len1, vals) : \E pair2 \in Pairs(len2, vals) :
       \E tail \in tails[rest + 1] :
           src = <<pair1, pair2>> \o tail

\* 'p1' and so on, as character codes
PLAYER_IDS ==
    << <<(<<112, 49>>), PyInt(1)>>, <<(<<112, 50>>), PyInt(2)>>,
       <<(<<112, 51>>), PyInt(3)>>, <<(<<112, 52>>), PyInt(4)>> >>

(* ------------------------------ Node ----------------------------------- *)
\* Node.__init__
NewNode == [jumps |-> <<>>, jump_map |-> <<>>, jump_map_none |-> FALSE,
            fixup |-> PyNone]

\* Jump(char, to): `to' is a Node (named by its path) or a value
JumpToNode(c, path) == [char |-> c, isNode |-> TRUE, node |-> path, value |-> PyNone]
JumpToValue(c, v) == [char |-> c, isNode |-> FALSE, node |-> <<>>, value |-> v]

\* mutant: the test looks for a terminal edge that leads to a node
HasTerminalNode(node) == 0 \in DOMAIN node.jump_map /\ node.jump_map[0].isNode

\* `0 in self.jump_map'
HasTerminal(node) == 0 \in DOMAIN node.jump_map

RECURSIVE add_entry(_, _, _, _, _)
add_entry(ns, self, key, result, prev_key) ==
    IF key = <<>> THEN
        IF HasTerminal(ns[self]) THEN
            [nodes |-> ns, error |-> Exception("ValueError", "Repeated key: ", prev_key)]
        ELSE
            LET jump == JumpToValue(0, result) IN
            [nodes |-> [ns EXCEPT ![self].jumps = Append(@, jump),
                                  ![self].jump_map = (0 :> jump) @@ @],
             error |-> NoError]
    ELSE
        LET k == key[1]
            sub == Append(self, k)
            ns1 == IF k \in DOMAIN ns[self].jump_map THEN ns
                   ELSE LET jump == JumpToNode(k, sub) IN
                        (sub :> NewNode) @@
                        [ns EXCEPT ![self].jumps = Append(@, jump),
                                   ![self].jump_map = (k :> jump) @@ @]
            subnode == ns1[self].jump_map[k].node
        IN add_entry(ns1, subnode, Tail(key), result, Append(prev_key, key[1]))

(* --------------------------- sorting ----------------------------------- *)
\* Python's str `<' on keys: lexicographic on character codes
RECURSIVE KeyLess(_, _)
KeyLess(a, b) ==
    IF b = <<>> THEN FALSE
    ELSE IF a = <<>> THEN TRUE
    ELSE IF a[1] # b[1] THEN a[1] < b[1]
    ELSE KeyLess(Tail(a), Tail(b))

\* source.sort(key=lambda x: x[0]): a stable sort, here by insertion
RECURSIVE InsertPair(_, _)
InsertPair(s, x) ==
    IF s = <<>> THEN <<x>>
    ELSE IF KeyLess(x[1], s[1][1]) THEN <<x>> \o s
    ELSE <<s[1]>> \o InsertPair(Tail(s), x)

RECURSIVE SortSource(_)
SortSource(s) ==
    IF s = <<>> THEN <<>>
    ELSE InsertPair(SortSource(SubSeq(s, 1, Len(s) - 1)), s[Len(s)])

\* self.jumps.sort(key = lambda x: x.char): a stable sort, here by insertion
RECURSIVE InsertJump(_, _)
InsertJump(s, x) ==
    IF s = <<>> THEN <<x>>
    ELSE IF x.char < s[1].char THEN <<x>> \o s
    ELSE <<s[1]>> \o InsertJump(Tail(s), x)

\* mutant: the sort is descending (reverse=True)
RECURSIVE InsertJumpDesc(_, _)
InsertJumpDesc(s, x) ==
    IF s = <<>> THEN <<x>>
    ELSE IF x.char > s[1].char THEN <<x>> \o s
    ELSE <<s[1]>> \o InsertJumpDesc(Tail(s), x)

RECURSIVE SortJumpsDesc(_)
SortJumpsDesc(js) ==
    IF js = <<>> THEN <<>>
    ELSE InsertJumpDesc(SortJumpsDesc(SubSeq(js, 1, Len(js) - 1)), js[Len(js)])

RECURSIVE SortJumps(_)
SortJumps(js) ==
    IF js = <<>> THEN <<>>
    ELSE InsertJump(SortJumps(SubSeq(js, 1, Len(js) - 1)), js[Len(js)])

(* ------------------------ Node.compile --------------------------------- *)
\* the state compile and compile_part work on
Raise(st, e) == [st EXCEPT !.error = e]

\* mutant: `>=' for `>' in the comparison of the two child nodes
PivotTieLow(js, ns, first, last) ==
    LET distance == last - first IN
    IF distance = 0 THEN first
    ELSE IF distance % 2 # 0 THEN
        LET ind1 == first + distance \div 2
            n1 == js[ind1 + 1]
            n2 == js[ind1 + 2]
        IN IF n1.isNode THEN
               IF n2.isNode THEN
                   IF Len(ns[n1.node].jumps) >= Len(ns[n2.node].jumps)
                   THEN ind1 ELSE ind1 + 1
               ELSE ind1
           ELSE ind1 + 1
    ELSE first + distance \div 2

\* compile_part, the choice of `current' among self.jumps[first..last]
Pivot(js, ns, first, last) ==
    LET distance == last - first IN
    IF distance = 0 THEN first
    ELSE IF distance % 2 # 0 THEN
        LET ind1 == first + distance \div 2
            n1 == js[ind1 + 1]
            n2 == js[ind1 + 2]
        IN IF n1.isNode THEN
               IF n2.isNode THEN
                   IF Len(ns[n1.node].jumps) > Len(ns[n2.node].jumps)
                   THEN ind1 ELSE ind1 + 1
               ELSE ind1
           ELSE ind1 + 1
    ELSE first + distance \div 2

\* mutant: `assert distance > 0'
DistancePositive(distance) == distance > 0

\* `assert distance >= 0'
DistanceOk(distance) == distance >= 0

\* mutant: the address written is the word index, `// 4' forgotten
ApplyFixupWords(comp, fixup) ==
    IF fixup.type # "NoneType"
    THEN [comp EXCEPT ![fixup.int + 1] = PyInt(Len(comp))]
    ELSE comp

\* mutant: the address written is that of the last entry appended
ApplyFixupLast(comp, fixup) ==
    IF fixup.type # "NoneType"
    THEN [comp EXCEPT ![fixup.int + 1] = PyInt(Len(comp) \div 4 - 1)]
    ELSE comp

\* `if(fixup is not None): compilation[fixup] = len(compilation) // 4'
ApplyFixup(comp, fixup) ==
    IF fixup.type # "NoneType"
    THEN [comp EXCEPT ![fixup.int + 1] = PyInt(Len(comp) \div 4)]
    ELSE comp

\* mutant: `>' for `>='
TooLargeStrict(comp, lim) == Len(comp) > lim

\* `len(compilation) >= 0xFFFF - 4', the limit a parameter
TooLarge(comp, lim) == Len(comp) >= lim

\* 'static_cast<uint_fast16_t>(' + str(current_jump.to) + ')'
StaticCast(v) == PyStr("static_cast<uint_fast16_t>(" \o Str(v) \o ")")

\* mutant: the child is not pushed
DeferNoPush(st, to, slot) == [st EXCEPT !.nodes[to].fixup = PyInt(slot)]

\* `current_jump.to.fixup = lencomp - 1; stack.append(current_jump.to)'
Defer(st, to, slot) ==
    [st EXCEPT !.nodes[to].fixup = PyInt(slot), !.stack = Append(@, to)]

RECURSIVE compile_part(_, _, _, _, _, _)
compile_part(self, first, last, fixup, lim, st) ==
    IF ~DistanceOk(last - first) THEN
        Raise(st, Exception("AssertionError", "distance >= 0", self))
    ELSE
    LET js == st.nodes[self].jumps
        current == Pivot(js, st.nodes, first, last)
        st1 == [st EXCEPT !.compilation = ApplyFixup(@, fixup)]
        current_jump == js[current + 1]
    IN
    IF TooLarge(st1.compilation, lim) THEN
        Raise(st1, Exception("RuntimeError", "Compilation too large", self))
    ELSE
    LET st2 == [st1 EXCEPT !.compilation =
                   @ \o <<PyInt(current_jump.char), PyNone, PyNone, PyNone>>]
        lencomp == Len(st2.compilation)
        \* Compile current
        st3 == IF current_jump.isNode
               THEN Defer(st2, current_jump.node, lencomp - 1)
               ELSE [st2 EXCEPT !.compilation[lencomp - 1 + 1] =
                                    StaticCast(current_jump.value)]
        \* Compile previous
        st4 == IF current = first
               THEN [st3 EXCEPT !.compilation[lencomp - 3 + 1] = PyInt(0)]
               ELSE IF ~(current > first)
               THEN Raise(st3, Exception("AssertionError", "current > first", self))
               ELSE compile_part(self, first, current - 1, PyInt(lencomp - 3), lim, st3)
    IN
    IF st4.error # NoError THEN st4
    \* Compile next
    ELSE IF current = last
    THEN [st4 EXCEPT !.compilation[lencomp - 2 + 1] = PyInt(0)]
    ELSE IF ~(current < last)
    THEN Raise(st4, Exception("AssertionError", "current < last", self))
    ELSE compile_part(self, current + 1, last, PyInt(lencomp - 2), lim, st4)

\* mutant: the jump map is emptied, not set to None
ClearJumpMap(node) == [node EXCEPT !.jump_map = <<>>]

\* `self.jump_map = None'
DropJumpMap(node) == [node EXCEPT !.jump_map = <<>>, !.jump_map_none = TRUE]

\* Node.compile(self, compilation, stack)
compile(self, lim, st) ==
    IF st.nodes[self].jump_map_none THEN
        Raise(st, Exception("RuntimeError", "Repeated attempt to compile a Node", self))
    ELSE
        LET st1 == [st EXCEPT !.nodes[self] = DropJumpMap(@)]
            st2 == [st1 EXCEPT !.nodes[self].jumps = SortJumps(@)]
        IN compile_part(self, 0, Len(st2.nodes[self].jumps) - 1,
                        st2.nodes[self].fixup, lim, st2)

(* ------------------------ compile_trie --------------------------------- *)
\* `k in keys'
KeySeen(k, keys) == k \in keys

\* isinstance(v, (int, str))
ValidValue(v) == v.type \in {"int", "str"}

\* the loop over source that checks keys and values
RECURSIVE CheckSource(_, _, _)
CheckSource(src, i, keys) ==
    IF i > Len(src) THEN NoError
    ELSE IF KeySeen(src[i][1], keys)
    THEN Exception("ValueError", "Repeated key in ", src[i][1])
    ELSE IF ~ValidValue(src[i][2])
    THEN Exception("ValueError", "Invalid value in ", src[i][1])
    ELSE CheckSource(src, i + 1, keys \cup {src[i][1]})

\* the validation loop: TRUE iff no assertion fails
Validated(comp) ==
    \A e \in 0..(Len(comp) \div 4 - 1) :
        LET i == 4 * e IN
        /\ \A k \in 1..2 : /\ comp[i + k + 1].type = "int"
                           /\ comp[i + k + 1].int < Len(comp) \div 4
        /\ IF comp[i + 3 + 1].type = "int"
           THEN comp[i + 3 + 1].int < Len(comp) \div 4
           ELSE comp[i + 3 + 1].type = "str"

\* the words as the last loop rewrites them
EmitWord(comp, w) ==
    IF (w - 1) % 4 = 0 THEN "\n\t" \o Str(comp[w]) ELSE Str(comp[w])

\* ', '.join(compilation)
RECURSIVE Join(_, _)
Join(comp, w) ==
    IF w > Len(comp) THEN ""
    ELSE IF w = Len(comp) THEN EmitWord(comp, w)
    ELSE EmitWord(comp, w) \o ", " \o Join(comp, w + 1)

\* the returned declaration
Declaration(nm, comp) ==
    "const uint_fast16_t " \o nm \o "[] {" \o Join(comp, 1) \o "\n};"

(* ----------------------------- tables ---------------------------------- *)
K3(a, b, c) == <<a, b, c>>

TRANSLATE_POSITION_DOUBLES_P1 ==
    << <<K3(112, 49, 97), PyInt(4 + 1)>>, <<K3(112, 49, 98), PyInt(4 + 2)>>,
       <<K3(112, 50, 98), PyInt(4 - 1)>>, <<K3(112, 50, 97), PyInt(4 - 2)>> >>

TRANSLATE_POSITION_DOUBLES_P2 ==
    << <<K3(112, 50, 97), PyInt(4 + 1)>>, <<K3(112, 50, 98), PyInt(4 + 2)>>,
       <<K3(112, 49, 98), PyInt(4 - 1)>>, <<K3(112, 49, 97), PyInt(4 - 2)>> >>

TRANSLATE_POSITION_TRIPLES_P1 ==
    << <<K3(112, 49, 97), PyInt(4 + 1)>>, <<K3(112, 49, 98), PyInt(4 + 2)>>,
       <<K3(112, 49, 99), PyInt(4 + 3)>>, <<K3(112, 50, 99), PyInt(4 - 1)>>,
       <<K3(112, 50, 98), PyInt(4 - 2)>>, <<K3(112, 50, 97), PyInt(4 - 3)>> >>

TRANSLATE_POSITION_TRIPLES_P2 ==
    << <<K3(112, 50, 97), PyInt(4 + 1)>>, <<K3(112, 50, 98), PyInt(4 + 2)>>,
       <<K3(112, 50, 99), PyInt(4 + 3)>>, <<K3(112, 49, 99), PyInt(4 - 1)>>,
       <<K3(112, 49, 98), PyInt(4 - 2)>>, <<K3(112, 49, 97), PyInt(4 - 3)>> >>

TRANSLATE_POSITION_MULTI_P1 ==
    << <<K3(112, 49, 97), PyInt(4 + 1)>>, <<K3(112, 51, 98), PyInt(4 + 2)>>,
       <<K3(112, 52, 98), PyInt(4 - 1)>>, <<K3(112, 50, 97), PyInt(4 - 2)>> >>

TRANSLATE_POSITION_MULTI_P3 ==
    << <<K3(112, 51, 98), PyInt(4 + 1)>>, <<K3(112, 49, 97), PyInt(4 + 2)>>,
       <<K3(112, 50, 97), PyInt(4 - 1)>>, <<K3(112, 52, 98), PyInt(4 - 2)>> >>

TRANSLATE_POSITION_MULTI_P2 ==
    << <<K3(112, 50, 97), PyInt(4 + 1)>>, <<K3(112, 52, 98), PyInt(4 + 2)>>,
       <<K3(112, 51, 98), PyInt(4 - 1)>>, <<K3(112, 49, 97), PyInt(4 - 2)>> >>

TRANSLATE_POSITION_MULTI_P4 ==
    << <<K3(112, 52, 98), PyInt(4 + 1)>>, <<K3(112, 50, 97), PyInt(4 + 2)>>,
       <<K3(112, 49, 97), PyInt(4 - 1)>>, <<K3(112, 51, 98), PyInt(4 - 2)>> >>

\* the tries of LIST_OF_TRIES with keys of at most three characters
Tables ==
    [PLAYER_IDS |-> PLAYER_IDS,
     TRANSLATE_POSITION_DOUBLES_P1 |-> TRANSLATE_POSITION_DOUBLES_P1,
     TRANSLATE_POSITION_DOUBLES_P2 |-> TRANSLATE_POSITION_DOUBLES_P2,
     TRANSLATE_POSITION_TRIPLES_P1 |-> TRANSLATE_POSITION_TRIPLES_P1,
     TRANSLATE_POSITION_TRIPLES_P2 |-> TRANSLATE_POSITION_TRIPLES_P2,
     TRANSLATE_POSITION_MULTI_P1 |-> TRANSLATE_POSITION_MULTI_P1,
     TRANSLATE_POSITION_MULTI_P3 |-> TRANSLATE_POSITION_MULTI_P3,
     TRANSLATE_POSITION_MULTI_P2 |-> TRANSLATE_POSITION_MULTI_P2,
     TRANSLATE_POSITION_MULTI_P4 |-> TRANSLATE_POSITION_MULTI_P4]

(* ------------------------------ state ---------------------------------- *)
Root == <<>>

InitRest ==
    /\ pc = "start"
    /\ idx = 0
    /\ nodes = <<>>
    /\ compilation = <<>>
    /\ stack = <<>>
    /\ error = NoError
    /\ output = ""
    /\ pushed = <<>>
    /\ compiled = <<>>
    /\ direct = <<>>

\* compile_trie on any bounded list of pairs
Init ==
    /\ name = "TRIE"
    /\ IsSource(source, Values, Tails)
    /\ limit = WordLimit
    /\ InitRest

\* the same with the word limit a small parameter
InitLimit ==
    /\ name = "TRIE"
    /\ IsSource(source, {PyInt(1)}, LimitTails)
    /\ limit \in 0..MaxLimit
    /\ InitRest

\* main(): compile_trie(tn, globals()[tn])
InitTables ==
    /\ name \in DOMAIN Tables
    /\ source = Tables[name]
    /\ limit = WordLimit
    /\ InitRest

SourceKeys == {source[i][1] : i \in 1..Len(source)}
KeyPrefixes == UNION {{SubSeq(k, 1, n) : n \in 1..Len(k)} : k \in SourceKeys}

\* the keys of the direct calls: the keys held, their prefixes, the empty
\* key and the keys of one character
DirectKeys == SourceKeys \cup KeyPrefixes \cup {<<>>} \cup {<<c>> : c \in Chars}

\* compile_trie up to `start = Node()'
PreCheck ==
    /\ pc = "start"
    /\ LET e == CheckSource(source, 1, {}) IN
       IF e # NoError
       THEN /\ pc' = "raised"
            /\ error' = e
            /\ UNCHANGED <<source, nodes, idx>>
       ELSE /\ source' = SortSource(source)
            /\ nodes' = (Root :> NewNode)
            /\ idx' = 1
            /\ pc' = "build"
            /\ UNCHANGED error
    /\ UNCHANGED <<name, limit, compilation, stack, output, pushed, compiled, direct>>

\* one round of `for k, v in source: start.add_entry(k, v)'
AddEntryStep ==
    /\ pc = "build"
    /\ idx <= Len(source)
    /\ LET r == add_entry(nodes, Root, source[idx][1], source[idx][2], <<>>) IN
       /\ nodes' = r.nodes
       /\ error' = r.error
       /\ IF r.error # NoError
          THEN pc' = "raised" /\ UNCHANGED idx
          ELSE pc' = "build" /\ idx' = idx + 1
    /\ UNCHANGED <<name, source, limit, compilation, stack, output, pushed,
                   compiled, direct>>

\* a direct call start.add_entry(k, v) on the built tree
DirectAddEntry ==
    /\ pc = "build"
    /\ idx > Len(source)
    /\ \E k \in DirectKeys, v \in ValidValues :
        LET r == add_entry(nodes, Root, k, v, <<>>) IN
        /\ direct' = << <<k, v>> >>
        /\ nodes' = r.nodes
        /\ error' = r.error
        /\ pc' = IF r.error # NoError THEN "fault" ELSE "direct"
    /\ UNCHANGED <<name, source, limit, idx, compilation, stack, output, pushed,
                   compiled>>

\* `compilation = []; stack = [start]'
StartCompile ==
    /\ pc = "build"
    /\ idx > Len(source)
    /\ compilation' = <<>>
    /\ stack' = <<Root>>
    /\ pushed' = <<Root>>
    /\ pc' = "compile"
    /\ UNCHANGED <<name, source, limit, idx, nodes, error, output, compiled, direct>>

Reentrant(e) == e.msg = "Repeated attempt to compile a Node"

\* one round of `while stack: next_node = stack.pop(); next_node.compile(...)'
CompileStep ==
    /\ pc = "compile"
    /\ stack # <<>>
    /\ LET next_node == stack[Len(stack)]
           st == compile(next_node, limit,
                         [compilation |-> compilation,
                          stack |-> SubSeq(stack, 1, Len(stack) - 1),
                          nodes |-> nodes, error |-> NoError])
       IN
       /\ compilation' = st.compilation
       /\ stack' = st.stack
       /\ nodes' = st.nodes
       /\ error' = st.error
       /\ pushed' = pushed \o SubSeq(st.stack, Len(stack), Len(st.stack))
       /\ compiled' = IF Reentrant(st.error) THEN compiled
                      ELSE Append(compiled, next_node)
       /\ pc' = IF st.error # NoError THEN "raised" ELSE "compile"
    /\ UNCHANGED <<name, source, limit, idx, output, direct>>

\* the loop of assertions after the work list is empty
Validate ==
    /\ pc = "compile"
    /\ stack = <<>>
    /\ IF Validated(compilation)
       THEN pc' = "emit" /\ UNCHANGED error
       ELSE /\ pc' = "raised"
            /\ error' = Exception("AssertionError", "validation", <<>>)
    /\ UNCHANGED <<name, source, limit, idx, nodes, compilation, stack, output,
                   pushed, compiled, direct>>

\* the loop that turns the words into strings, and the return
Emit ==
    /\ pc = "emit"
    /\ compilation' = [w \in 1..Len(compilation) |-> PyStr(EmitWord(compilation, w))]
    /\ output' = Declaration(name, compilation)
    /\ pc' = "done"
    /\ UNCHANGED <<name, source, limit, idx, nodes, stack, error, pushed,
                   compiled, direct>>

\* a second call of compile on a node of the linked tree
Recompile ==
    /\ pc = "compile"
    /\ stack = <<>>
    /\ \E n \in DOMAIN nodes :
        LET st == compile(n, limit,
                          [compilation |-> compilation, stack |-> stack,
                           nodes |-> nodes, error |-> NoError])
        IN
        /\ compilation' = st.compilation
        /\ stack' = st.stack
        /\ nodes' = st.nodes
        /\ error' = st.error
        /\ pushed' = pushed \o st.stack
        /\ compiled' = IF Reentrant(st.error) THEN compiled
                       ELSE Append(compiled, n)
        /\ pc' = "fault"
    /\ UNCHANGED <<name, source, limit, idx, output, direct>>

Next ==
    \/ PreCheck
    \/ AddEntryStep
    \/ DirectAddEntry
    \/ StartCompile
    \/ CompileStep
    \/ Validate
    \/ Emit
    \/ Recompile

Spec == Init /\ [][Next]_vars
SpecLimit == InitLimit /\ [][Next]_vars
SpecTables == InitTables /\ [][Next]_vars

(* ---------------------- the consumer's walk ---------------------------- *)
\* entry e of the array: its four words
EntryCount(comp) == Len(comp) \div 4
CharCode(comp, e) == comp[4 * e + 1]
LeftAddr(comp, e) == comp[4 * e + 2]
RightAddr(comp, e) == comp[4 * e + 3]
Payload(comp, e) == comp[4 * e + 4]

IsAddress(comp, w) == w.type = "int" /\ w.int \in 0..(EntryCount(comp) - 1)

\* The walk of the runtime consumer: start at address 0 and input position 0;
\* end of input is probed as character code 0.  The result names how the
\* walk ended (match, nomatch, or fault when an address cannot be followed
\* or the fuel is used up) and the addresses visited.
RECURSIVE Walk(_, _, _, _, _, _)
Walk(comp, input, addr, pos, fuel, path) ==
    IF fuel = 0 \/ addr \notin 0..(EntryCount(comp) - 1)
    THEN [kind |-> "fault", payload |-> "", path |-> path]
    ELSE
    LET probe == IF pos + 1 > Len(input) THEN 0 ELSE input[pos + 1]
        c == CharCode(comp, addr).int
        visited == Append(path, addr)
        branch == IF probe < c THEN LeftAddr(comp, addr) ELSE RightAddr(comp, addr)
    IN
    IF probe = c THEN
        IF c = 0
        THEN [kind |-> "match", payload |-> Str(Payload(comp, addr)), path |-> visited]
        ELSE IF Payload(comp, addr).type # "int"
        THEN [kind |-> "fault", payload |-> "", path |-> visited]
        ELSE Walk(comp, input, Payload(comp, addr).int, pos + 1, fuel - 1, visited)
    ELSE IF branch.type # "int"
    THEN [kind |-> "fault", payload |-> "", path |-> visited]
    ELSE IF branch.int = 0
    THEN [kind |-> "nomatch", payload |-> "", path |-> visited]
    ELSE Walk(comp, input, branch.int, pos, fuel - 1, visited)

Lookup(comp, input) == Walk(comp, input, 0, 0, Len(comp) + 1, <<>>)

(* --------------------------- properties -------------------------------- *)
\* the work-list loop of compile_trie has ended
Linked == (pc = "compile" /\ stack = <<>>) \/ pc = "emit"

\* the strings walked: every string over the characters of the keys and
\* one more, up to one character longer than the longest key
RECURSIVE LongestKey(_, _)
LongestKey(src, i) ==
    IF i > Len(src) THEN 0
    ELSE LET rest == LongestKey(src, i + 1) IN
         IF Len(src[i][1]) > rest THEN Len(src[i][1]) ELSE rest

Probes == UNION {[1..n -> Chars \cup {OtherChar}] : n \in 0..(LongestKey(source, 1) + 1)}

IsProperPrefix(a, b) == Len(a) < Len(b) /\ SubSeq(b, 1, Len(a)) = a

HasDuplicate == \E i, j \in 1..Len(source) : i < j /\ source[i][1] = source[j][1]

RECURSIVE SumEdges(_, _)
SumEdges(ns, S) ==
    IF S = {} THEN 0
    ELSE LET n == CHOOSE x \in S : TRUE
         IN Len(ns[n].jumps) + SumEdges(ns, S \ {n})

\* the edges of the tree, summed over all nodes
TotalEdges == SumEdges(nodes, DOMAIN nodes)

\* the same count from the keys: one continuation edge per distinct
\* non-empty prefix, one terminal edge per key
EdgesOfKeys == Cardinality(KeyPrefixes) + Cardinality(SourceKeys)

Occurrences(seq, x) == Cardinality({i \in 1..Len(seq) : seq[i] = x})

\* C1: when the work-list loop has ended, the walk of every inserted key
\* returns the terminal payload built from that key's own value, and the
\* walk of every string that is not an inserted key (proper prefixes and
\* proper extensions of keys included) returns no match.
C1_RoundTrip ==
    Linked =>
        \A input \in Probes :
            LET r == Lookup(compilation, input) IN
            IF input \in SourceKeys
            THEN \E i \in 1..Len(source) :
                    /\ source[i][1] = input
                    /\ r.kind = "match"
                    /\ r.payload = "static_cast<uint_fast16_t>(" \o Str(source[i][2]) \o ")"
            ELSE r.kind = "nomatch"

\* three keys, one a proper prefix of another, an integer and a string
\* among the values, linked
C1_Witness ==
    /\ Linked
    /\ Len(source) = 3
    /\ \E i, j \in 1..3 : IsProperPrefix(source[i][1], source[j][1])
    /\ \E i, j \in 1..3 : source[i][2].type = "int" /\ source[j][2].type = "str"

\* C4: when the work-list loop has ended, every left_addr and right_addr is
\* an integer in 0..entry_count-1, every payload is a string literal or an
\* integer in 0..entry_count-1, no word is None, and the validation
\* assertions never fail.
C4_AddressValidity ==
    /\ Linked =>
        /\ compilation # <<>>
        /\ Len(compilation) % 4 = 0
        /\ Validated(compilation)
        /\ \A e \in 0..(EntryCount(compilation) - 1) :
            /\ CharCode(compilation, e).type = "int"
            /\ IsAddress(compilation, LeftAddr(compilation, e))
            /\ IsAddress(compilation, RightAddr(compilation, e))
            /\ \/ Payload(compilation, e).type = "str"
               \/ IsAddress(compilation, Payload(compilation, e))
    /\ error.msg # "validation"

\* a linked array with a resolved left, right and continuation link
C4_Witness ==
    /\ Linked
    /\ \E e \in 0..(EntryCount(compilation) - 1) : LeftAddr(compilation, e).int > 0
    /\ \E e \in 0..(EntryCount(compilation) - 1) : RightAddr(compilation, e).int > 0
    /\ \E e \in 0..(EntryCount(compilation) - 1) : Payload(compilation, e).type = "int"

\* C5: when the work-list loop has ended, the number of entries is the
\* number of edges of the tree summed over all nodes, which is one per
\* distinct non-empty key prefix plus one per key.
C5_EntryCount ==
    Linked =>
        /\ EntryCount(compilation) = TotalEdges
        /\ EntryCount(compilation) = EdgesOfKeys

\* a linked tree in which two keys share an edge
C5_Witness ==
    /\ Linked
    /\ Len(source) = 3
    /\ \E i, j \in 1..3 :
        i # j /\ source[i][1] # <<>> /\ source[j][1] # <<>> /\ source[i][1][1] = source[j][1][1]

\* C9: when the work-list loop has ended, every non-zero left_addr and
\* right_addr and every continuation payload of the entry at address i is
\* greater than i, and every walk visits strictly increasing addresses,
\* ends in a match or no match, and takes at most entry_count steps.
C9_ForwardOnly ==
    Linked =>
        /\ \A e \in 0..(EntryCount(compilation) - 1) :
            /\ LeftAddr(compilation, e).int # 0 => LeftAddr(compilation, e).int > e
            /\ RightAddr(compilation, e).int # 0 => RightAddr(compilation, e).int > e
            /\ Payload(compilation, e).type = "int" => Payload(compilation, e).int > e
        /\ \A input \in Probes :
            LET r == Lookup(compilation, input) IN
            /\ r.kind # "fault"
            /\ Len(r.path) <= EntryCount(compilation)
            /\ \A a \in 1..(Len(r.path) - 1) : r.path[a] < r.path[a + 1]

\* a linked array in which some walk follows a left, a right and a payload link
C9_Witness ==
    /\ Linked
    /\ \E e \in 0..(EntryCount(compilation) - 1) : LeftAddr(compilation, e).int > e
    /\ \E e \in 0..(EntryCount(compilation) - 1) : RightAddr(compilation, e).int > e
    /\ \E input \in Probes : Len(Lookup(compilation, input).path) >= 4

\* C2 as stated, for the word limits that leave the remainder of 0xFFFF - 4
\* when divided by 4: an array that compile_trie links has at most limit/4
\* entries, and a trie with one edge more than limit/4 is never linked.
C2_Original ==
    limit % 4 = WordLimit % 4 =>
        /\ Linked => EntryCount(compilation) <= limit \div 4
        /\ (pc \in {"compile", "emit", "done"} /\ TotalEdges = limit \div 4 + 1) => ~Linked

\* C2, amended: with the word limit L of compile_part's guard, the array
\* never has more than ceil(L/4) entries (its length stays below L + 4); a
\* trie with at most ceil(L/4) edges never overflows, a trie with more edges
\* is never linked, and the overflow error comes with no output.
C2_Limit ==
    /\ EntryCount(compilation) <= (limit + 3) \div 4
    /\ Len(compilation) < limit + 4
    /\ Linked => TotalEdges <= (limit + 3) \div 4
    /\ error.msg = "Compilation too large" =>
          /\ pc = "raised"
          /\ error.type = "RuntimeError"
          /\ output = ""
          /\ TotalEdges > (limit + 3) \div 4
    /\ (pc = "raised" /\ TotalEdges > (limit + 3) \div 4) =>
          error.msg = "Compilation too large"

\* a linked array of limit/4 + 1 entries, the limit 3 mod 4 as 0xFFFF - 4 is
C2_Witness ==
    /\ Linked
    /\ limit % 4 = WordLimit % 4
    /\ limit > 4
    /\ EntryCount(compilation) = limit \div 4 + 1

\* C3: a source with a repeated key never gets past the check of the keys,
\* never produces entries or output, and, its values being integers or
\* strings, raises 'Repeated key in' for the repeated key; add_entry called
\* directly with a key the tree holds raises 'Repeated key: ' for that key.
C3_Duplicate ==
    /\ HasDuplicate =>
        /\ pc \in {"start", "raised"}
        /\ output = ""
        /\ compilation = <<>>
        /\ pc = "raised" => error.type = "ValueError"
        /\ (pc = "raised" /\ \A i \in 1..Len(source) : ValidValue(source[i][2])) =>
              /\ error.msg = "Repeated key in "
              /\ \E i, j \in 1..Len(source) :
                    i < j /\ source[i][1] = source[j][1] /\ error.key = source[j][1]
    /\ (direct # <<>> /\ direct[1][1] \in SourceKeys) =>
        /\ pc = "fault"
        /\ error = Exception("ValueError", "Repeated key: ", direct[1][1])
        /\ output = ""
        /\ compilation = <<>>

\* a repeated key with different values was rejected, or a direct add_entry
\* of a held key with the value it already has
C3_Witness ==
    \/ /\ pc = "raised"
       /\ Len(source) = 3
       /\ source[1][1] = source[3][1]
       /\ source[1][2] # source[3][2]
       /\ source[2][1] # source[1][1]
    \/ /\ direct # <<>>
       /\ \E i \in 1..Len(source) : source[i] = direct[1]

\* the pivot rule of the claim; `otherwise' names the candidate taken when
\* both are terminal or the two child nodes are tied
RulePivot(js, ns, first, last, otherwise) ==
    LET count == last - first + 1
        lo == first + count \div 2 - 1
        hi == lo + 1
        size(i) == Len(ns[js[i + 1].node].jumps)
    IN
    IF count = 1 THEN first
    ELSE IF count % 2 = 1 THEN first + (count - 1) \div 2
    ELSE IF js[lo + 1].isNode /\ js[hi + 1].isNode /\ size(lo) > size(hi) THEN lo
    ELSE IF js[lo + 1].isNode /\ js[hi + 1].isNode /\ size(hi) > size(lo) THEN hi
    ELSE IF js[lo + 1].isNode /\ ~js[hi + 1].isNode THEN lo
    ELSE IF ~js[lo + 1].isNode /\ js[hi + 1].isNode THEN hi
    ELSE IF otherwise = "lower" THEN lo ELSE hi

PivotFollows(otherwise) ==
    \A n \in DOMAIN nodes :
        \A first, last \in 0..(Len(nodes[n].jumps) - 1) :
            first <= last =>
                Pivot(nodes[n].jumps, nodes, first, last)
                    = RulePivot(nodes[n].jumps, nodes, first, last, otherwise)

\* C6 as stated: on a tie (or two terminal candidates) the lower-indexed
\* candidate is the pivot.
C6_Original == PivotFollows("lower")

\* C6, amended: the rule of the claim, except that when the two child nodes
\* are tied in edge count (or both candidates are terminal) the pivot is the
\* higher-indexed candidate.
C6_PivotRule == PivotFollows("higher")

\* a compiled node with two edges to child nodes of equal edge count
C6_Witness ==
    /\ Linked
    /\ \E n \in DOMAIN nodes :
        /\ Len(nodes[n].jumps) = 2
        /\ nodes[n].jumps[1].isNode /\ nodes[n].jumps[2].isNode
        /\ Len(nodes[nodes[n].jumps[1].node].jumps) = Len(nodes[nodes[n].jumps[2].node].jumps)

TerminalEntries(comp) ==
    {e \in 0..(EntryCount(comp) - 1) : CharCode(comp, e).int = 0}

\* C7 as stated: PLAYER_IDS compiles to 4 entries, each terminal.
C7_Original ==
    (name = "PLAYER_IDS" /\ Linked) =>
        /\ EntryCount(compilation) = 4
        /\ TerminalEntries(compilation) = 0..(EntryCount(compilation) - 1)

\* C7, amended: PLAYER_IDS compiles to 9 entries, one per edge of the tree:
\* 4 terminal ones (char_code 0) and 5 for the characters 'p', '1', '2',
\* '3', '4'.
C7_PlayerIds ==
    (name = "PLAYER_IDS" /\ Linked) =>
        /\ EntryCount(compilation) = 9
        /\ Cardinality(TerminalEntries(compilation)) = 4
        /\ {CharCode(compilation, e).int : e \in 0..8} = {0, 112, 49, 50, 51, 52}
        /\ \A e \in TerminalEntries(compilation) :
            Payload(compilation, e).type = "str"

\* PLAYER_IDS linked
C7_Witness == name = "PLAYER_IDS" /\ Linked /\ Len(compiled) = 6

\* C8: no node is pushed or compiled twice; when the work-list loop has
\* ended every node was pushed once and compiled once; compile_trie never
\* raises 'Repeated attempt to compile a Node'; a second call of compile on
\* a compiled node raises it and appends nothing.
C8_CompiledOnce ==
    /\ \A n \in DOMAIN nodes :
        Occurrences(pushed, n) <= 1 /\ Occurrences(compiled, n) <= 1
    /\ Linked =>
        /\ \A n \in DOMAIN nodes :
            Occurrences(pushed, n) = 1 /\ Occurrences(compiled, n) = 1
        /\ Len(pushed) = Cardinality(DOMAIN nodes)
        /\ Len(compiled) = Cardinality(DOMAIN nodes)
    /\ pc = "raised" => ~Reentrant(error)
    /\ (pc = "fault" /\ direct = <<>>) =>
        /\ error.type = "RuntimeError" /\ Reentrant(error)
        /\ EntryCount(compilation) = TotalEdges
        /\ stack = <<>>
        /\ Len(compiled) = Cardinality(DOMAIN nodes)

\* compile was called again on a node of a linked tree of several nodes
C8_Witness ==
    /\ pc = "fault"
    /\ direct = <<>>
    /\ Cardinality(DOMAIN nodes) >= 4
    /\ error.key # Root

\* C10: with an empty source nothing is linked or returned and the run ends
\* in the failed assertion `distance >= 0' of the root's compile_part; that
\* assertion fails for no other source, and every node but the root has an
\* edge.
C10_EmptyInput ==
    /\ source = <<>> =>
        /\ ~Linked
        /\ pc \notin {"emit", "done"}
        /\ output = ""
        /\ compilation = <<>>
        /\ pc = "raised" => error = Exception("AssertionError", "distance >= 0", Root)
        /\ (pc = "compile" /\ stack = <<>>) => FALSE
    /\ error.msg = "distance >= 0" => source = <<>>
    /\ \A n \in DOMAIN nodes : n # Root => Len(nodes[n].jumps) >= 1

\* the empty source ran into the assertion
C10_Witness == source = <<>> /\ pc = "raised" /\ error.type = "AssertionError"

====
